---------------------------- MODULE Spec2Model ----------------------------
(***************************************************************************)
(* EmojiModerator of DeniedBot.py: the denylist (banned_emojis,            *)
(* all_banned_emojis, the file banned_emojis.json), the admin commands     *)
(* add-emoji, remove-emoji and restore, the process restart, and the two   *)
(* event listeners on_message and on_reaction_add.                         *)
(*                                                                         *)
(* A string is a sequence of code points.  A JSON document is a record     *)
(* [kind, items]: kind "list" with its items, or kind "object" for a       *)
(* document that is valid JSON but no list ({}).  A file is a JSON         *)
(* document, or "absent", or "corrupt" (text json.load rejects).           *)
(*                                                                         *)
(* Handlers are coroutines on one event loop: a step of the model is the   *)
(* code a handler runs between two suspension points.  A handler that only *)
(* awaits platform calls and returns after the last one leaves no state    *)
(* behind at its suspension points, so its calls are folded into the step. *)
(* restore is split at attachment.save, the one await that is followed by  *)
(* code that writes the denylist; the bytes of the attachment are known to *)
(* the program when the download ends, and are chosen there.               *)
(*                                                                         *)
(* ctx.send in an admin command is recorded as the reply the command       *)
(* makes; whether the platform delivers it changes nothing the commands    *)
(* read or write.  The calls of the two listeners are recorded one by one  *)
(* with their outcome, since the listeners branch on it.                   *)
(*                                                                         *)
(* Two of the eighteen default flags stand for the list, and one glyph     *)
(* that is no default for the arguments.  list-banned and backup read the  *)
(* denylist and write none of its parts; they are left out.                *)
(***************************************************************************)
EXTENDS Integers, Sequences, FiniteSets, TLC

VARIABLES
    banned_emojis,      \* self.banned_emojis: the custom list, as json.load gave it
    all_banned_emojis,  \* self.all_banned_emojis: the effective set
    file,               \* the content of banned_emojis.json
    alive,              \* the constructor of the running process returned
    downloading,        \* restore handlers suspended in attachment.save
    last,               \* what the last handler step was given and did
    durable,            \* history: glyphs added and not removed or restored since
    serial              \* history: the denylist of the commands run one at a time

vars == <<banned_emojis, all_banned_emojis, file, alive, downloading, last, durable, serial>>

---------------------------------------------------------------------------
(* Bounds *)

MaxLen == 2

MaxText == 2

MaxInflight == 1

(* Program constants *)

WARNING_TTL == 10

---------------------------------------------------------------------------
(* Strings and glyphs *)

RU == <<"R", "U">>

UA == <<"U", "A">>

DEVIL == <<"d">>

DEFAULT_COUNTRY_FLAGS == <<RU, UA>>

Char == {"R", "U", "d"}

ArgGlyphs == {RU, DEVIL}

ReactGlyphs == {RU, UA, DEVIL, <<"R">>}

SeqUpTo(S, n) == UNION {[1..k -> S] : k \in 0..n}

Texts == SeqUpTo(Char, MaxText)

Range(s) == {s[i] : i \in 1..Len(s)}

\* Python's `a in b` for two strings: a is a contiguous part of b.
StrIn(a, b) == \E i \in 1..(Len(b) - Len(a) + 1) : SubSeq(b, i, i + Len(a) - 1) = a

---------------------------------------------------------------------------
(* JSON documents and files *)

JList(s) == [kind |-> "list", items |-> s]

JObject == [kind |-> "object", items |-> <<>>]

Absent == [kind |-> "absent", items |-> <<>>]

Corrupt == [kind |-> "corrupt", items |-> <<>>]

Lists == {JList(s) : s \in SeqUpTo(ArgGlyphs, MaxLen)}

AttachmentContents == Lists \cup {JObject, Corrupt}

\* What the message of a restore command carries: no attachment, a first
\* attachment whose name ends in .json, or one whose name does not.
Attachments == {"none", "json", "other"}

SaveOutcomes == {"ok", "open_failed", "write_failed"}

\* open(..., 'w') truncates, then the document is written: a failure to open
\* leaves the file as it was, a failure while writing leaves a truncated one.
WriteFile(old, doc, io) ==
    CASE io = "ok" -> doc
      [] io = "open_failed" -> old
      [] OTHER -> Corrupt

load_banned_emojis(f) ==
    IF f.kind \in {"absent", "corrupt"} THEN JList(<<>>) ELSE f

save_banned_emojis(old, emojis, io) == WriteFile(old, JList(emojis), io)

\* list + x raises TypeError unless x is a list.
CanConcat(doc) == doc.kind = "list"

\* set(DEFAULT_COUNTRY_FLAGS + banned)
EffectiveOf(doc) == Range(DEFAULT_COUNTRY_FLAGS \o doc.items)

\* list.remove(x): drops the first occurrence.
RECURSIVE ListRemove(_, _)
ListRemove(s, x) ==
    IF s = <<>> THEN <<>>
    ELSE IF Head(s) = x THEN Tail(s)
    ELSE <<Head(s)>> \o ListRemove(Tail(s), x)

---------------------------------------------------------------------------
(* Observation of the last handler step *)

Call(name, ttl, ok) == [call |-> name, ttl |-> ttl, ok |-> ok]

\* op: the handler; arg: its glyph or text; bot: the author is a bot; att: the
\* attachment of a restore message; doc: the bytes a restore downloaded;
\* reply: what an admin command sends to ctx; calls: the platform calls of a
\* listener; fault: the I/O failure met; escaped: an exception left the handler.
Obs(op, arg, bot, att, doc, reply, calls, fault, escaped) ==
    [op |-> op, arg |-> arg, bot |-> bot, att |-> att, doc |-> doc, reply |-> reply,
     calls |-> calls, fault |-> fault, escaped |-> escaped]

Admin(op, arg, reply, fault, escaped) ==
    Obs(op, arg, FALSE, "none", Absent, reply, <<>>, fault, escaped)

NoObs == Admin("start", <<>>, "", "none", FALSE)

\* The glyphs added with success and neither removed nor followed by a restore.
Track(d, obs) ==
    CASE obs.op = "add" /\ obs.reply = "added" -> d \cup {obs.arg}
      [] obs.op = "remove" -> d \ {obs.arg}
      [] obs.op \in {"restore", "restore_resume"} -> {}
      [] OTHER -> d

---------------------------------------------------------------------------
(* Startup *)

Init ==
    /\ file \in Lists \cup {Absent, Corrupt}
    /\ banned_emojis = load_banned_emojis(file)
    /\ all_banned_emojis = EffectiveOf(banned_emojis)
    /\ alive = TRUE
    /\ downloading = 0
    /\ durable = {}
    /\ last = NoObs
    /\ serial = [banned |-> banned_emojis, all |-> all_banned_emojis, file |-> file]

\* __init__ in a fresh process: handlers in flight are gone.  With a file that
\* holds a JSON document that is no list the constructor raises TypeError.
Restart ==
    LET b == load_banned_emojis(file) IN
    /\ downloading' = 0
    /\ file' = file
    /\ IF CanConcat(b)
       THEN /\ banned_emojis' = b
            /\ all_banned_emojis' = EffectiveOf(b)
            /\ alive' = TRUE
            /\ last' = Admin("restart", <<>>, "", "none", FALSE)
       ELSE /\ banned_emojis' = JList(<<>>)
            /\ all_banned_emojis' = {}
            /\ alive' = FALSE
            /\ last' = Admin("restart", <<>>, "", "none", TRUE)
    /\ durable' = Track(durable, last')
    /\ serial' = [banned |-> banned_emojis', all |-> all_banned_emojis', file |-> file']

---------------------------------------------------------------------------
(* Admin commands, as functions of the denylist S = [banned, all, file]: the new *)
(* denylist with what the command replies (reply), the I/O failure it met        *)
(* (fault) and whether an exception left the handler (escaped).                  *)

Store == [banned |-> banned_emojis, all |-> all_banned_emojis, file |-> file]

Result(banned, all, f, reply, fault, escaped) ==
    [banned |-> banned, all |-> all, file |-> f, reply |-> reply, fault |-> fault,
     escaped |-> escaped]

Same(S, reply, fault, escaped) == Result(S.banned, S.all, S.file, reply, fault, escaped)

\* Faulty variant: the membership test reads the effective set.
InCustom_effective(S, emoji) == emoji \in S.all

\* `emoji in self.banned_emojis` (a dict {} has no keys)
InCustom(S, emoji) == emoji \in Range(S.banned.items)

AddEmoji(S, emoji, saveIO) ==
    IF InCustom(S, emoji) THEN Same(S, "already", "none", FALSE)
    ELSE IF S.banned.kind # "list"
    THEN \* dict.append: AttributeError
         Same(S, "", "none", TRUE)
    ELSE LET banned == JList(Append(S.banned.items, emoji))
             all == S.all \cup {emoji}
             f == save_banned_emojis(S.file, banned.items, saveIO)
         IN IF saveIO = "ok"
            THEN Result(banned, all, f, "added", "none", FALSE)
            ELSE Result(banned, all, f, "", "save", TRUE)

RemoveEmoji(S, emoji, saveIO) ==
    IF ~InCustom(S, emoji) THEN Same(S, "not_found", "none", FALSE)
    ELSE LET banned == JList(ListRemove(S.banned.items, emoji))
             all == S.all \ {emoji}
             f == save_banned_emojis(S.file, banned.items, saveIO)
         IN IF saveIO = "ok"
            THEN Result(banned, all, f, "removed", "none", FALSE)
            ELSE Result(banned, all, f, "", "save", TRUE)

\* Faulty variant: the file name of the attachment is not looked at.
restore_check_anyname(att) == IF att = "none" THEN "need_attachment" ELSE ""

\* The checks restore makes before it downloads: the reply to send, or "" to go on.
restore_check(att) ==
    IF att = "none" THEN "need_attachment"
    ELSE IF att # "json" THEN "need_json"
    ELSE ""

\* restore from the moment attachment.save resumes: the download has ended, its
\* bytes are written to banned_emojis.json, the list is reloaded.  Every
\* exception is caught and answered with a message.
RestoreResume(S, doc, dlOK, writeIO) ==
    LET written == WriteFile(S.file, doc, writeIO)
        loaded == load_banned_emojis(written)
    IN IF ~dlOK THEN Same(S, "restore_error", "download", FALSE)
       ELSE IF writeIO # "ok"
       THEN Result(S.banned, S.all, written, "restore_error", "attachment_write", FALSE)
       ELSE IF CanConcat(loaded)
       THEN Result(loaded, EffectiveOf(loaded), written, "restored", "none", FALSE)
       ELSE \* TypeError, after self.banned_emojis was assigned
            Result(loaded, S.all, written, "restore_error", "none", FALSE)

Denylist(r) == [banned |-> r.banned, all |-> r.all, file |-> r.file]

Commit(r) ==
    /\ banned_emojis' = r.banned
    /\ all_banned_emojis' = r.all
    /\ file' = r.file

add_emoji(emoji, saveIO) ==
    LET r == AddEmoji(Store, emoji, saveIO) IN
    /\ alive
    /\ UNCHANGED <<alive, downloading>>
    /\ Commit(r)
    /\ last' = Admin("add", emoji, r.reply, r.fault, r.escaped)
    /\ durable' = Track(durable, last')
    /\ serial' = Denylist(AddEmoji(serial, emoji, saveIO))

remove_emoji(emoji, saveIO) ==
    LET r == RemoveEmoji(Store, emoji, saveIO) IN
    /\ alive
    /\ UNCHANGED <<alive, downloading>>
    /\ Commit(r)
    /\ last' = Admin("remove", emoji, r.reply, r.fault, r.escaped)
    /\ durable' = Track(durable, last')
    /\ serial' = Denylist(RemoveEmoji(serial, emoji, saveIO))

\* restore, up to `await attachment.save(...)`.
restore(att) ==
    /\ alive
    /\ UNCHANGED <<banned_emojis, all_banned_emojis, file, alive>>
    /\ IF restore_check(att) # ""
       THEN downloading' = downloading
       ELSE /\ downloading < MaxInflight
            /\ downloading' = downloading + 1
    /\ last' = Obs("restore", <<>>, FALSE, att, Absent, restore_check(att), <<>>,
                   "none", FALSE)
    /\ durable' = Track(durable, last')
    /\ serial' = serial

restore_resume(doc, dlOK, writeIO) ==
    LET r == RestoreResume(Store, doc, dlOK, writeIO) IN
    /\ alive
    /\ alive' = alive
    /\ downloading > 0
    /\ downloading' = downloading - 1
    /\ Commit(r)
    /\ last' = Obs("restore_resume", <<>>, FALSE, "json", doc, r.reply, <<>>,
                   r.fault, r.escaped)
    /\ durable' = Track(durable, last')
    /\ serial' = Denylist(RestoreResume(serial, doc, dlOK, writeIO))

---------------------------------------------------------------------------
(* Event listeners *)

contains_banned_emoji(text) == \E emoji \in all_banned_emojis : StrIn(emoji, text)

\* Faulty variant: the author's bot flag is not looked at.
message_calls_anyauthor(bot, text, delOK, sendOK) ==
    IF ~contains_banned_emoji(text) THEN <<>>
    ELSE IF ~delOK THEN <<Call("message.delete", 0, FALSE)>>
    ELSE <<Call("message.delete", 0, TRUE), Call("channel.send", WARNING_TTL, sendOK)>>

\* The platform calls on_message makes, in order.
message_calls(bot, text, delOK, sendOK) ==
    IF bot THEN <<>>
    ELSE IF ~contains_banned_emoji(text) THEN <<>>
    ELSE IF ~delOK THEN <<Call("message.delete", 0, FALSE)>>
    ELSE <<Call("message.delete", 0, TRUE), Call("channel.send", WARNING_TTL, sendOK)>>

\* try ... except Exception around the calls of on_message: nothing escapes.
message_escapes(calls) == FALSE

on_message(bot, text, delOK, sendOK) ==
    LET calls == message_calls(bot, text, delOK, sendOK) IN
    /\ alive
    /\ UNCHANGED <<banned_emojis, all_banned_emojis, file, alive, downloading>>
    /\ last' = Obs("message", text, bot, "none", Absent, "", calls, "none",
                   message_escapes(calls))
    /\ UNCHANGED <<durable, serial>>

\* Faulty variant: the public notice is sent after the private one, not instead of it.
reaction_calls_both(bot, emoji_str, rmOK, dmOK, pubOK) ==
    IF bot THEN <<>>
    ELSE IF emoji_str \notin all_banned_emojis THEN <<>>
    ELSE IF ~rmOK THEN <<Call("remove_reaction", 0, FALSE)>>
    ELSE <<Call("remove_reaction", 0, TRUE), Call("user.send", 0, dmOK),
           Call("channel.send", WARNING_TTL, pubOK)>>

\* The platform calls on_reaction_add makes, in order.
reaction_calls(bot, emoji_str, rmOK, dmOK, pubOK) ==
    IF bot THEN <<>>
    ELSE IF emoji_str \notin all_banned_emojis THEN <<>>
    ELSE IF ~rmOK THEN <<Call("remove_reaction", 0, FALSE)>>
    ELSE IF dmOK THEN <<Call("remove_reaction", 0, TRUE), Call("user.send", 0, TRUE)>>
    ELSE <<Call("remove_reaction", 0, TRUE), Call("user.send", 0, FALSE),
           Call("channel.send", WARNING_TTL, pubOK)>>

\* Faulty variant: the inner try is not nested in the outer one, a failure of the
\* fallback send leaves the handler.
reaction_escapes_fallback(calls) == Len(calls) = 3 /\ ~calls[3].ok

\* The fallback send sits in the inner except clause, inside the outer try:
\* its failure is caught by the outer except Exception.
reaction_escapes(calls) == FALSE

on_reaction_add(bot, emoji_str, rmOK, dmOK, pubOK) ==
    LET calls == reaction_calls(bot, emoji_str, rmOK, dmOK, pubOK) IN
    /\ alive
    /\ UNCHANGED <<banned_emojis, all_banned_emojis, file, alive, downloading>>
    /\ last' = Obs("reaction", emoji_str, bot, "none", Absent, "", calls, "none",
                   reaction_escapes(calls))
    /\ UNCHANGED <<durable, serial>>

---------------------------------------------------------------------------
(* Specifications *)

\* A platform call that is reached only after an earlier one succeeded has an
\* outcome only then: the outcomes are drawn as the prefix of calls that succeed.
MessageOutcomes == {<<FALSE, FALSE>>, <<TRUE, FALSE>>, <<TRUE, TRUE>>}

ReactionOutcomes ==
    {<<FALSE, FALSE, FALSE>>, <<TRUE, TRUE, FALSE>>, <<TRUE, FALSE, FALSE>>,
     <<TRUE, FALSE, TRUE>>}

\* The whole program.
Next ==
    \/ Restart
    \/ \E e \in ArgGlyphs, io \in SaveOutcomes : add_emoji(e, io)
    \/ \E e \in ArgGlyphs, io \in SaveOutcomes : remove_emoji(e, io)
    \/ \E att \in Attachments : restore(att)
    \/ \E doc \in AttachmentContents, dlOK \in BOOLEAN, io \in SaveOutcomes :
          restore_resume(doc, dlOK, io)
    \/ \E bot \in BOOLEAN, text \in Texts, o \in MessageOutcomes :
          on_message(bot, text, o[1], o[2])
    \/ \E bot \in BOOLEAN, g \in ReactGlyphs, o \in ReactionOutcomes :
          on_reaction_add(bot, g, o[1], o[2], o[3])

Spec == Init /\ [][Next]_vars

\* The denylist and its writers: the admin commands and the restart.
NextStore ==
    \/ Restart
    \/ \E e \in ArgGlyphs, io \in SaveOutcomes : add_emoji(e, io)
    \/ \E e \in ArgGlyphs, io \in SaveOutcomes : remove_emoji(e, io)
    \/ \E att \in Attachments : restore(att)
    \/ \E doc \in AttachmentContents, dlOK \in BOOLEAN, io \in SaveOutcomes :
          restore_resume(doc, dlOK, io)

SpecStore == Init /\ [][NextStore]_vars

\* The listeners, which read all_banned_emojis and write no variable of the
\* denylist, over the effective sets that startup, add-emoji and remove-emoji
\* reach.  A save that fails leaves the same effective set as one that succeeds,
\* and the listeners never read the file: the saves here succeed.
NextListeners ==
    \/ \E e \in ArgGlyphs : add_emoji(e, "ok")
    \/ \E e \in ArgGlyphs : remove_emoji(e, "ok")
    \/ \E bot \in BOOLEAN, text \in Texts, o \in MessageOutcomes :
          on_message(bot, text, o[1], o[2])
    \/ \E bot \in BOOLEAN, g \in ReactGlyphs, o \in ReactionOutcomes :
          on_reaction_add(bot, g, o[1], o[2], o[3])

SpecListeners == Init /\ [][NextListeners]_vars

---------------------------------------------------------------------------
(* Properties *)

Custom == Range(banned_emojis.items)

Defaults == Range(DEFAULT_COUNTRY_FLAGS)

DenylistUnchanged == UNCHANGED <<banned_emojis, all_banned_emojis, file>>

\* g occurs in text: some stretch of text, from after position i up to j, is g.
Occurs(g, text) ==
    \E i \in 0..Len(text), j \in 0..Len(text) :
        /\ j - i = Len(g)
        /\ \A k \in 1..Len(g) : text[i + k] = g[k]

Attempted(calls, name) == \E i \in 1..Len(calls) : calls[i].call = name

\* C1: on_message attempts to delete the message exactly when the author is no
\* bot and a glyph of the effective set occurs in the text; a deletion that
\* succeeds is followed by a warning sent to the channel with a 10 second expiry;
\* for a bot or a text without banned glyph nothing is deleted and nothing sent.
C1_MessageModeration ==
    last.op = "message" =>
        LET hit == ~last.bot /\ \E g \in all_banned_emojis : Occurs(g, last.arg)
            c == last.calls
        IN /\ Attempted(c, "message.delete") <=> hit
           /\ hit => c[1].call = "message.delete"
           /\ (hit /\ c[1].ok) =>
                 /\ Len(c) = 2
                 /\ c[2].call = "channel.send"
                 /\ c[2].ttl = 10
           /\ ~hit => c = <<>>

\* A human's message with a glyph added by add-emoji was deleted and the
\* warning was sent.
C1_Witness ==
    /\ last.op = "message"
    /\ ~last.bot
    /\ DEVIL \in durable
    /\ DEVIL \in all_banned_emojis
    /\ Occurs(DEVIL, last.arg)
    /\ ~ \E g \in Defaults : Occurs(g, last.arg)
    /\ Len(last.calls) = 2
    /\ last.calls[1].ok
    /\ last.calls[2].ok

PublicNotice(c) ==
    /\ Len(c) = 3
    /\ c[3].call = "channel.send"
    /\ c[3].ttl = 10

\* C2 as stated: for a human's reaction with a glyph of the effective set the
\* handler removes the reaction, then attempts the private notice, and posts the
\* public notice exactly when the private one was not delivered; for a bot or
\* another glyph nothing is removed and nothing sent.
C2_ReactionAsStated ==
    last.op = "reaction" =>
        LET hit == ~last.bot /\ last.arg \in all_banned_emojis
            c == last.calls
        IN /\ ~hit => c = <<>>
           /\ hit =>
                 /\ Len(c) >= 2
                 /\ c[1].call = "remove_reaction"
                 /\ c[2].call = "user.send"
                 /\ PublicNotice(c) <=> ~c[2].ok

\* C2 as amended: for a human's reaction with a glyph of the effective set the
\* handler attempts to remove the reaction; if the removal succeeds it attempts
\* the private notice, and posts the public notice (10 second expiry) exactly
\* when the private one was not delivered; if the removal fails nothing more is
\* attempted; for a bot or another glyph nothing is removed and nothing sent.
C2_ReactionModeration ==
    last.op = "reaction" =>
        LET hit == ~last.bot /\ last.arg \in all_banned_emojis
            c == last.calls
        IN /\ ~hit => c = <<>>
           /\ hit =>
                 /\ Len(c) >= 1
                 /\ c[1].call = "remove_reaction"
           /\ (hit /\ c[1].ok) =>
                 /\ Len(c) >= 2
                 /\ c[2].call = "user.send"
                 /\ PublicNotice(c) <=> ~c[2].ok
                 /\ c[2].ok => Len(c) = 2
           /\ (hit /\ ~c[1].ok) => Len(c) = 1

\* A human's reaction with a default flag was removed, the private notice was
\* not delivered and the public notice was posted.
C2_Witness ==
    /\ last.op = "reaction"
    /\ ~last.bot
    /\ last.arg = UA
    /\ Len(last.calls) = 3
    /\ last.calls[1].ok
    /\ ~last.calls[2].ok
    /\ last.calls[3].call = "channel.send"

\* C3: the effective set is the union of the default glyphs and the custom list.
C3_EffectiveIsUnion == alive => all_banned_emojis = Defaults \cup Custom

\* C4: after an add-emoji or remove-emoji that reports success the file holds
\* the custom list; and a restart reloads every glyph that was added with
\* success and neither removed nor followed by a restore since.
C4_AddSurvivesRestart ==
    /\ (last.op \in {"add", "remove"} /\ last.reply \in {"added", "removed"}) =>
           file = JList(banned_emojis.items)
    /\ last.op = "restart" =>
           /\ durable \subseteq Custom
           /\ durable \subseteq all_banned_emojis

\* C5: a step in which the write of the file failed (add-emoji, remove-emoji) or
\* the download failed (restore) leaves custom list, effective set and file as
\* they were.
C5_IOFailureAborts ==
    [][(last'.fault \in {"save", "download"}) => DenylistUnchanged]_vars

C7_RemoveAbsent ==
    [][(last'.op = "remove" /\ last'.arg \notin Custom) =>
           /\ last'.reply = "not_found"
           /\ DenylistUnchanged]_vars

\* remove-emoji was given a glyph that is a default and not in the custom list.
C7_Witness ==
    /\ last.op = "remove"
    /\ last.arg \in Defaults
    /\ last.arg \notin Custom
    /\ last.arg \in all_banned_emojis
    /\ last.reply = "not_found"

C9_NoDuplicates ==
    \A i, j \in 1..Len(banned_emojis.items) :
        i # j => banned_emojis.items[i] # banned_emojis.items[j]

\* C10: when no admin command is in flight, custom list, effective set and file
\* are those of the same commands run one at a time, in the order in which they
\* wrote, and the list in the file is the custom list.
C10_Serialized ==
    downloading = 0 =>
        /\ Store = serial
        /\ load_banned_emojis(file) = banned_emojis

===========================================================================
